---- MODULE Spec2Model ----
(***************************************************************************)
(* The figure crawl (src/src/bib/download_figures.py), the full-text crawl *)
(* (src/src/bib/download_fulltext.py), the seed-URL generation they share  *)
(* and the older one-page figure script (src/code/download_figures.py), as *)
(* one state machine.                                                      *)
(*                                                                         *)
(* Strings are sequences of tokens.  Identifier text (a pmcid, a DOI, the  *)
(* tail of an image URL) is one character per token; the literal pieces of *)
(* the f-strings ("https://", a host name, "/articles/PMC", "/?term=")     *)
(* are one token each.  No literal token is spelled with identifier        *)
(* characters only, so two token sequences are equal exactly when the      *)
(* Python strings are.                                                     *)
(***************************************************************************)
EXTENDS Integers, Sequences, FiniteSets, TLC

VARIABLES
    mode,            \* which script runs: "figures", "fulltext" or "legacy"
    known,           \* whether bib_db.entries holds the citekey
    entry,           \* the entry's fields: [doi, pmcid]
    pc,              \* "start", "loop", "get" (legacy: before its one GET),
                     \* "done" (main returned), "raised"
    dirs,            \* directories created by mkdir
    url_queue,       \* url_queue
    idx,             \* idx, as a count of consumed queue entries
    visited,         \* visited
    tried,           \* tried_meta (figures) / tried (fulltext)
    downloaded_all,  \* downloaded_all (figures)
    full_html,       \* full_html (fulltext), None until a page is accepted
    final_used_url,  \* final_used_url (fulltext)
    writes,          \* the files written, in order: [file, data]
    out,             \* the status lines main prints
    gets,            \* the page URLs handed to requests.get, in order
    last,            \* what the latest loop iteration did
    origin,          \* per queued URL: the attempt that enqueued it (0: seed)
    skips,           \* how often the loop took `if url in visited: continue`
    image_url,       \* img_url of the download loop: the image being saved
    fname,           \* fname of the download loop
    run,             \* 0: a single run; 1, 2: the first and the second of two
                     \* runs for the same entry against a web that does not change
    web,             \* that web, as far as seen: [pages, imgs]
    first_run,       \* what the first of the two runs left: [pc, out, writes]
    bib_entries,     \* fetch.py: bib.entries of the .bib files, in file order
    sources,         \* fetch.py: the files the entries link, path -> md5 or "missing"
    fpc,             \* fetch.py: "start", "entries", "done"
    fpos,            \* fetch.py: the entry the inner for loop is at
    manifest,        \* fetch.py: manifest
    disk,            \* fetch.py: [pdf_dir, manifest_file, missing_log, pdf_fetched_log]
    fout,            \* fetch.py: what the run printed per entry: [line, name]
    frun,            \* fetch.py: 1, 2: the first run and its repetition
    first_disk,      \* fetch.py: disk as the first run left it
    bib_files,       \* merge.py: bib_files, the list handed to merge_bib_files
    bib_db,          \* merge.py: the entries of each .bib file on disk
    merged_entries,  \* merge.py: merged_entries
    output_file,     \* merge.py: output_file: [written, entries]
    soup,            \* extract_img_urls_from_html: the <img> elements of the page
    uniq             \* extract_img_urls_from_html: uniq; None before the call

\* the variables of the three scripts that fetch pages
crawlvars == <<mode, known, entry, pc, dirs, url_queue, idx, visited, tried,
               downloaded_all, full_html, final_used_url, writes, out, gets,
               last, origin, skips>>

\* the variables of the naming of one saved image
savevars == <<image_url, fname>>

\* the variables of a run and its repetition
rerunvars == <<run, web, first_run>>

\* the variables of the PDF copy
fetchvars == <<bib_entries, sources, fpc, fpos, manifest, disk, fout, frun, first_disk>>

\* the variables of the merge of the .bib files
mergevars == <<bib_files, bib_db, merged_entries, output_file>>

\* the variables of the image extraction taken alone
extractvars == <<soup, uniq>>

\* what the page-fetching actions leave alone
othervars == <<savevars, rerunvars, fetchvars, mergevars, extractvars>>

vars == <<crawlvars, savevars, rerunvars, fetchvars, mergevars, extractvars>>

----------------------------------------------------------------------------
(* Bounds of the model. *)

\* longest pmcid, in characters, of the seed-generation specification
MaxIdLen == 4
\* most <a> elements on a page
MaxLinks == 2
\* most <img> elements on a page
MaxImgs == 2
\* most pieces an image URL of the naming specification is made of
MaxParts == 3
\* most entries of the .bib files of the PDF copy
MaxEntries == 2

----------------------------------------------------------------------------
(* Python values. *)

\* None, told apart from every string (also from the empty one)
None == <<"<None>">>

\* bool(s) for a string-or-None
Truthy(s) == s # None /\ s # <<>>

Range(s) == {s[i] : i \in DOMAIN s}

NoDup(s) == \A i, j \in DOMAIN s : s[i] = s[j] => i = j

IsPrefix(s, t) == Len(s) <= Len(t) /\ SubSeq(t, 1, Len(s)) = s

\* sub in s, for strings as token sequences
Contains(s, sub) ==
    \E i \in 0..(Len(s) - Len(sub)) : SubSeq(s, i + 1, i + Len(sub)) = sub

\* index of the first occurrence of x in s (0 when absent)
IndexOf(s, x) ==
    IF x \in Range(s) THEN CHOOSE i \in DOMAIN s : s[i] = x /\ \A j \in 1..(i - 1) : s[j] # x
    ELSE 0

\* [u for u in s if not (u in seen or seen.add(u))]
RECURSIVE Dedupe(_)
Dedupe(s) ==
    IF s = <<>> THEN <<>>
    ELSE LET front == Dedupe(SubSeq(s, 1, Len(s) - 1))
             x == s[Len(s)]
         IN  IF x \in Range(front) THEN front ELSE Append(front, x)

\* str.replace("PMC", ""): non-overlapping occurrences, left to right
RECURSIVE RemovePMC(_)
RemovePMC(s) ==
    IF Len(s) < 3 THEN s
    ELSE IF SubSeq(s, 1, 3) = <<"P", "M", "C">> THEN RemovePMC(SubSeq(s, 4, Len(s)))
    ELSE <<s[1]>> \o RemovePMC(Tail(s))

\* str.strip()
RECURSIVE LStrip(_)
LStrip(s) == IF s # <<>> /\ s[1] = " " THEN LStrip(Tail(s)) ELSE s

RECURSIVE RStrip(_)
RStrip(s) == IF s # <<>> /\ s[Len(s)] = " " THEN RStrip(SubSeq(s, 1, Len(s) - 1)) ELSE s

Strip(s) == RStrip(LStrip(s))

\* str.lower(), token by token
LowerTok(t) ==
    CASE t = "TEXT/HTML" -> "text/html"
      [] t = "P" -> "p" [] t = "N" -> "n" [] t = "G" -> "g" [] t = "J" -> "j"
      [] t = "T" -> "t" [] t = "I" -> "i" [] t = "F" -> "f" [] t = "E" -> "e"
      [] t = ".PDF" -> ".pdf"
      [] OTHER -> t

Lower(s) == [i \in DOMAIN s |-> LowerTok(s[i])]

\* needle in tok, for the literal tokens the code searches
TokHas(tok, needle) ==
    \/ tok = needle
    \/ <<tok, needle>> \in { <<"text/html", "html">>,
                            <<"application/xhtml+xml", "html">> }

----------------------------------------------------------------------------
(* URLs. *)

HTTPS == "https://"
PMC_HOST == "pmc.ncbi.nlm.nih.gov"
PUBMED_HOST == "pubmed.ncbi.nlm.nih.gov"
DOI_HOST == "doi.org"
PUBLISHER_HOST == "learnmem.cshlp.org"
OTHER_HOST == "www.example.org"

\* urllib.parse.urlparse(u).netloc.lower()
Netloc(u) == IF Len(u) >= 2 /\ u[1] = HTTPS THEN LowerTok(u[2]) ELSE ""

\* requests.compat.urljoin(base, href), for absolute and for rooted hrefs
urljoin(base, href) ==
    IF href # <<>> /\ href[1] = HTTPS THEN href
    ELSE <<base[1], base[2]>> \o href

\* f"https://pmc.ncbi.nlm.nih.gov/articles/PMC{pmcid_clean}/"
PmcUrl(pmcid) == <<HTTPS, PMC_HOST, "/articles/PMC">> \o Strip(RemovePMC(pmcid)) \o <<"/">>

\* f"https://doi.org/{doi}"
DoiUrl(doi) == <<HTTPS, DOI_HOST, "/">> \o doi

\* f"https://pubmed.ncbi.nlm.nih.gov/?term={doi}"
PubmedSearchUrl(doi) == <<HTTPS, PUBMED_HOST, "/?term=">> \o doi

\* candidate_urls_for_entry with the two DOI candidates in the other order
candidate_urls_pubmed_first(e) ==
    Dedupe((IF Truthy(e.pmcid) THEN <<PmcUrl(e.pmcid)>> ELSE <<>>)
             \o (IF Truthy(e.doi) THEN <<PubmedSearchUrl(e.doi), DoiUrl(e.doi)>> ELSE <<>>))

\* the seed list download_fulltext.main starts from
candidate_urls_for_entry(e) ==
    Dedupe((IF Truthy(e.pmcid) THEN <<PmcUrl(e.pmcid)>> ELSE <<>>)
             \o (IF Truthy(e.doi) THEN <<DoiUrl(e.doi), PubmedSearchUrl(e.doi)>> ELSE <<>>))

\* the inline seed list without its `if doi:`
figure_seed_urls_always_doi(e) ==
    LET q1 == IF Truthy(e.pmcid) THEN <<PmcUrl(e.pmcid)>> ELSE <<>>
    IN  Dedupe(q1 \o <<DoiUrl(e.doi)>> \o <<PubmedSearchUrl(e.doi)>>)

\* the seed list download_figures.main builds inline
figure_seed_urls(e) ==
    LET q1 == IF Truthy(e.pmcid) THEN <<PmcUrl(e.pmcid)>> ELSE <<>>
        q2 == IF Truthy(e.doi) THEN q1 \o <<DoiUrl(e.doi)>> \o <<PubmedSearchUrl(e.doi)>> ELSE q1
    IN  Dedupe(q2)

----------------------------------------------------------------------------
(* Pages.  An HTML text is what the scripts read off its parse tree: the   *)
(* <a href> elements and the <img> elements in document order, and the     *)
(* visible text of the three regions extract_main_text_from_html may pick. *)

\* html = None
HtmlNone ==
    [kind |-> "none", blank |-> TRUE, anchors |-> <<>>, imgs |-> <<>>,
     main_content |-> None, article |-> None, page_text |-> <<>>]

\* `not html`
NotHtml(html) == html.kind = "none" \/ html.blank

\* ctype = None
CtypeNone == "<None>"

\* img.get("src") or img.get("data-src")
ImgSrcFirst(img) == IF Truthy(img.src) THEN img.src ELSE img.data_src

\* img.get("data-src") or img.get("src")
ImgSrc(img) == IF Truthy(img.data_src) THEN img.data_src ELSE img.src

\* ['div.figures', 'div.figure', 'div.fig', 'li.fig', 'li.figure']
SELECTORS == <<"div.figures", "div.figure", "div.fig", "li.fig", "li.figure">>

\* one pass of extract_img_urls_from_html over the <img> elements, in
\* document order: the images inside <figure>, those inside the containers
\* one selector matches, or those with "fig" in alt or title
RECURSIVE SrcsWhere(_, _, _)
SrcsWhere(imgs, pass, base_url) ==
    IF imgs = <<>> THEN <<>>
    ELSE LET img == imgs[1]
             hit == CASE pass = "figure" -> img.in_figure
                      [] pass = "alt" -> img.alt_fig
                      [] OTHER -> img.container = pass
             src == ImgSrc(img)
         IN  (IF hit /\ Truthy(src) THEN <<urljoin(base_url, src)>> ELSE <<>>)
                 \o SrcsWhere(Tail(imgs), pass, base_url)

\* for selector in [...]: for container in soup.select(selector): ...
RECURSIVE ContainerSrcs(_, _, _)
ContainerSrcs(imgs, selectors, base_url) ==
    IF selectors = <<>> THEN <<>>
    ELSE SrcsWhere(imgs, selectors[1], base_url)
             \o ContainerSrcs(imgs, Tail(selectors), base_url)

extract_img_urls_from_html(base_url, html) ==
    Dedupe(SrcsWhere(html.imgs, "figure", base_url)
             \o ContainerSrcs(html.imgs, SELECTORS, base_url)
             \o SrcsWhere(html.imgs, "alt", base_url))

\* the hrefs that name the PMC host, made absolute, first occurrence kept
RECURSIVE PmcHrefs(_, _)
PmcHrefs(anchors, base_url) ==
    IF anchors = <<>> THEN <<>>
    ELSE (IF PMC_HOST \in Range(anchors[1].href)
          THEN <<urljoin(base_url, anchors[1].href)>> ELSE <<>>)
             \o PmcHrefs(Tail(anchors), base_url)

find_pmc_links_in_html(base_url, html) == Dedupe(PmcHrefs(html.anchors, base_url))

find_pmc_links_in_pubmed(base_url, html) == Dedupe(PmcHrefs(html.anchors, base_url))

\* soup.select_one("a.docsum-title"): the first such anchor, or None
SelectDocsumTitle(html) ==
    LET hits == SelectSeq(html.anchors, LAMBDA a : a.docsum)
    IN  IF hits = <<>> THEN None ELSE hits[1].href

\* extract_main_text_from_html
extract_main_text_from_html(html) ==
    IF html.main_content # None THEN html.main_content
    ELSE IF html.article # None THEN html.article
    ELSE html.page_text

\* Enqueue that inserts right behind the URL being processed (depth-first)
RECURSIVE EnqueueAfterCurrent(_, _, _)
EnqueueAfterCurrent(queue, seen, cands) ==
    IF cands = <<>> THEN queue
    ELSE EnqueueAfterCurrent(
             IF cands[1] \notin seen /\ cands[1] \notin Range(queue)
             THEN SubSeq(queue, 1, idx + 1) \o <<cands[1]>> \o SubSeq(queue, idx + 2, Len(queue))
             ELSE queue,
             seen, Tail(cands))

\* Enqueue that puts a new link at the head of the queue
RECURSIVE EnqueueFront(_, _, _)
EnqueueFront(queue, seen, cands) ==
    IF cands = <<>> THEN queue
    ELSE EnqueueFront(IF cands[1] \notin seen /\ cands[1] \notin Range(queue)
                      THEN <<cands[1]>> \o queue ELSE queue,
                      seen, Tail(cands))

\* Enqueue without the membership tests
EnqueueUnchecked(queue, seen, cands) == queue \o cands

\* for x in cands: if x not in visited and x not in url_queue: url_queue.append(x)
RECURSIVE Enqueue(_, _, _)
Enqueue(queue, seen, cands) ==
    IF cands = <<>> THEN queue
    ELSE Enqueue(IF cands[1] \notin seen /\ cands[1] \notin Range(queue)
                 THEN Append(queue, cands[1]) ELSE queue,
                 seen, Tail(cands))

----------------------------------------------------------------------------
(* One HTTP GET of a page, as requests.get answers it: it raises (exc), or *)
(* it returns a status, a Content-Type, the resolved URL and the body.     *)

HTTP_OK == 200

\* (None, None, None)
FetchNone == [raised |-> FALSE, final_url |-> None, html |-> HtmlNone, ctype |-> CtypeNone]

\* fetch_html without its try/except: a transport failure propagates
fetch_html_unguarded(url, resp) ==
    IF resp.exc THEN [FetchNone EXCEPT !.raised = TRUE]
    ELSE IF resp.status # HTTP_OK THEN FetchNone
    ELSE IF ~TokHas(LowerTok(resp.ctype), "html") THEN FetchNone
    ELSE [raised |-> FALSE, final_url |-> resp.url, html |-> resp.text,
          ctype |-> LowerTok(resp.ctype)]

\* fetch_html of download_figures.py
fetch_html(url, resp) ==
    IF resp.exc THEN FetchNone
    ELSE IF resp.status # HTTP_OK THEN FetchNone
    ELSE IF ~TokHas(LowerTok(resp.ctype), "html") THEN FetchNone
    ELSE [raised |-> FALSE, final_url |-> resp.url, html |-> resp.text,
          ctype |-> LowerTok(resp.ctype)]

\* fetch_html of download_fulltext.py without the content-type test
fetch_html_fulltext_any_type(url, resp) ==
    IF resp.exc THEN FetchNone
    ELSE IF resp.status # HTTP_OK THEN FetchNone
    ELSE [raised |-> FALSE, final_url |-> resp.url, html |-> resp.text,
          ctype |-> LowerTok(resp.ctype)]

\* fetch_html of download_fulltext.py
fetch_html_fulltext(url, resp) ==
    IF resp.exc THEN FetchNone
    ELSE IF resp.status # HTTP_OK \/ ~TokHas(LowerTok(resp.ctype), "html") THEN FetchNone
    ELSE [raised |-> FALSE, final_url |-> resp.url, html |-> resp.text,
          ctype |-> LowerTok(resp.ctype)]

\* final_url or url
FinalOr(final_url, url) == IF Truthy(final_url) THEN final_url ELSE url

----------------------------------------------------------------------------
(* Saving the images of one page. *)

\* the candidates with the longer of two overlapping extensions first
EXT_CANDS_LONGEST_FIRST ==
    << <<".", "p", "n", "g">>, <<".", "j", "p", "e", "g">>, <<".", "j", "p", "g">>,
       <<".", "t", "i", "f", "f">>, <<".", "t", "i", "f">>, <<".", "g", "i", "f">> >>

\* (".png", ".jpg", ".jpeg", ".tif", ".tiff", ".gif")
EXT_CANDS ==
    << <<".", "p", "n", "g">>, <<".", "j", "p", "g">>, <<".", "j", "p", "e", "g">>,
       <<".", "t", "i", "f">>, <<".", "t", "i", "f", "f">>, <<".", "g", "i", "f">> >>

\* ext = ".png"; for cand in (...): if cand in lower: ext = cand; break
RECURSIVE FirstCand(_, _)
FirstCand(lower, k) ==
    IF k > Len(EXT_CANDS) THEN <<".", "p", "n", "g">>
    ELSE IF Contains(lower, EXT_CANDS[k]) THEN EXT_CANDS[k]
    ELSE FirstCand(lower, k + 1)

ExtOf(img_url) == FirstCand(Lower(img_url), 1)

\* figs_dir / f"figure_{i}{ext}"
FigureFile(i, ext) == [stem |-> "figure_", n |-> i, ext |-> ext]

\* the test without `r.status_code != 200 or not r.content`
KeptUnchecked(outcome) == outcome # "exc"

\* the image is kept: requests.get did not raise, status 200, content nonempty
Kept(outcome) == outcome = "ok"

\* a download loop that a failed image ends (`break` for `continue`)
RECURSIVE DownloadLoopBreak(_, _, _)
DownloadLoopBreak(img_urls, i, dl) ==
    IF i > Len(img_urls) \/ ~Kept(dl[img_urls[i]]) THEN <<>>
    ELSE << [url |-> img_urls[i], file |-> FigureFile(i, ExtOf(img_urls[i]))] >>
             \o DownloadLoopBreak(img_urls, i + 1, dl)

\* the download loop of try_download_from_url, from the i-th image URL on:
\* the {url, file} records appended to downloaded
RECURSIVE DownloadLoop(_, _, _)
DownloadLoop(img_urls, i, dl) ==
    IF i > Len(img_urls) THEN <<>>
    ELSE (IF Kept(dl[img_urls[i]])
          THEN << [url |-> img_urls[i], file |-> FigureFile(i, ExtOf(img_urls[i]))] >>
          ELSE <<>>)
             \o DownloadLoop(img_urls, i + 1, dl)

\* a trace entry that records the resolved URL as the requested one
FigureTraceResolved(url, final_url, html) ==
    [url |-> FinalOr(final_url, url), final_url |-> final_url,
     status |-> IF NotHtml(html) THEN "no_html" ELSE "html"]

\* the trace entry of the figure crawl
FigureTrace(url, final_url, html) ==
    [url |-> url, final_url |-> final_url,
     status |-> IF NotHtml(html) THEN "no_html" ELSE "html"]

\* `if not html:` that returns [] without tracing the attempt
no_html_result_untraced(url, f) ==
    [raised |-> FALSE, visited |-> visited \cup {url}, url_queue |-> url_queue,
     tried |-> tried, downloaded |-> <<>>, parsed |-> FALSE, cands |-> <<>>, fetched |-> f]

\* `if not html:` of try_download_from_url: the attempt is traced, nothing
\* is parsed and [] is returned
no_html_result(url, f) ==
    [raised |-> FALSE, visited |-> visited \cup {url}, url_queue |-> url_queue,
     tried |-> Append(tried, FigureTrace(url, f.final_url, f.html)),
     downloaded |-> <<>>, parsed |-> FALSE, cands |-> <<>>, fetched |-> f]

\* try_download_from_url: what it leaves in visited, url_queue, tried_meta
\* and on disk, and the list it returns
try_download_from_url(url, resp, dl) ==
    LET f == fetch_html(url, resp)
        host == Netloc(FinalOr(f.final_url, url))
        pmc_candidates ==
            IF TokHas(host, PUBMED_HOST) THEN find_pmc_links_in_html(f.final_url, f.html)
            ELSE <<>>
        img_urls == extract_img_urls_from_html(f.final_url, f.html)
    IN  IF f.raised THEN
            [raised |-> TRUE, visited |-> visited \cup {url}, url_queue |-> url_queue,
             tried |-> tried, downloaded |-> <<>>, parsed |-> FALSE, cands |-> <<>>,
             fetched |-> f]
        ELSE IF NotHtml(f.html) THEN no_html_result(url, f)
        ELSE
            [raised |-> FALSE, visited |-> visited \cup {url},
             url_queue |-> Enqueue(url_queue, visited \cup {url}, pmc_candidates),
             tried |-> Append(tried, FigureTrace(url, f.final_url, f.html)),
             downloaded |-> DownloadLoop(img_urls, 1, dl), parsed |-> TRUE,
             cands |-> pmc_candidates, fetched |-> f]

----------------------------------------------------------------------------
(* src/code/download_figures.py: one GET of the DOI page, no queue.        *)

\* the two passes over the <img> elements, then the dedupe
legacy_img_urls(final_url, html) ==
    Dedupe(SrcsWhere(html.imgs, "figure", final_url)
             \o ContainerSrcs(html.imgs, SELECTORS, final_url))

\* (".png", ".jpg", ".jpeg", ".tif", ".gif")
LEGACY_EXT_CANDS ==
    << <<".", "p", "n", "g">>, <<".", "j", "p", "g">>, <<".", "j", "p", "e", "g">>,
       <<".", "t", "i", "f">>, <<".", "g", "i", "f">> >>

RECURSIVE LegacyFirstCand(_, _)
LegacyFirstCand(lower, k) ==
    IF k > Len(LEGACY_EXT_CANDS) THEN <<".", "p", "n", "g">>
    ELSE IF Contains(lower, LEGACY_EXT_CANDS[k]) THEN LEGACY_EXT_CANDS[k]
    ELSE LegacyFirstCand(lower, k + 1)

\* the image is kept: requests.get did not raise and the status is 200
LegacyKept(outcome) == outcome \in {"ok", "empty"}

RECURSIVE LegacyDownloadLoop(_, _, _)
LegacyDownloadLoop(img_urls, i, dl) ==
    IF i > Len(img_urls) THEN <<>>
    ELSE (IF LegacyKept(dl[img_urls[i]])
          THEN << [url |-> img_urls[i],
                   file |-> FigureFile(i, LegacyFirstCand(Lower(img_urls[i]), 1))] >>
          ELSE <<>>)
             \o LegacyDownloadLoop(img_urls, i + 1, dl)

\* main from the GET on: the line it prints when it returns early, the
\* page it parses and the images it keeps
legacy_run(resp, dl) ==
    IF resp.exc THEN
        [line |-> "DOI request failed", parsed |-> FALSE, final_url |-> None,
         downloaded |-> <<>>]
    ELSE IF resp.status # HTTP_OK THEN
        [line |-> "HTTP status", parsed |-> FALSE, final_url |-> None, downloaded |-> <<>>]
    ELSE
        [line |-> "", parsed |-> TRUE, final_url |-> resp.url,
         downloaded |-> LegacyDownloadLoop(legacy_img_urls(resp.url, resp.text), 1, dl)]

----------------------------------------------------------------------------
(* One pass of the while loop of download_fulltext.main, after             *)
(* `if url in visited: continue`.                                          *)

\* a host test that takes every page for an article page
TerminalHostAny(host) == TRUE

\* "pmc.ncbi.nlm.nih.gov" in host or "learnmem.cshlp.org" in host
TerminalHost(host) == TokHas(host, PMC_HOST) \/ TokHas(host, PUBLISHER_HOST)

\* {"url": url, "final_url": final_url, "ctype": ctype or "unknown"}
FulltextTrace(url, f) ==
    [url |-> url, final_url |-> f.final_url,
     ctype |-> IF f.ctype = CtypeNone \/ f.ctype = "" THEN "unknown" ELSE f.ctype]

fulltext_pass(url, resp) ==
    LET f == fetch_html_fulltext(url, resp)
        seen == visited \cup {url}
        here == FinalOr(f.final_url, url)
        host == Netloc(here)
        first == SelectDocsumTitle(f.html)
        base == [raised |-> FALSE, visited |-> seen, url_queue |-> url_queue,
                 tried |-> Append(tried, FulltextTrace(url, f)),
                 full_html |-> full_html, final_used_url |-> final_used_url,
                 parsed |-> FALSE, cands |-> <<>>, fetched |-> f]
        pmc_urls == find_pmc_links_in_pubmed(f.final_url, f.html)
    IN  IF f.raised THEN [base EXCEPT !.raised = TRUE, !.tried = tried]
        ELSE IF NotHtml(f.html) THEN base
        ELSE IF TokHas(host, PUBMED_HOST) /\ "/?term=" \in Range(here) THEN
            [base EXCEPT !.parsed = TRUE,
                         !.cands = IF Truthy(first) THEN <<urljoin(f.final_url, first)>>
                                   ELSE <<>>,
                         !.url_queue = IF Truthy(first)
                                       THEN Enqueue(url_queue, seen, <<urljoin(f.final_url, first)>>)
                                       ELSE url_queue]
        ELSE IF TokHas(host, PUBMED_HOST) THEN
            [base EXCEPT !.parsed = TRUE, !.cands = pmc_urls,
                         !.url_queue = Enqueue(url_queue, seen, pmc_urls)]
        ELSE IF TerminalHost(host) THEN
            [base EXCEPT !.full_html = f.html, !.final_used_url = f.final_url]
        ELSE base

----------------------------------------------------------------------------
(* The web the crawl runs against. *)

CrawlPmcid == <<"P", "M", "C", "7">>
CrawlDoi == <<"1", "0", ".", "1", "/", "x">>

CrawlEntries == [doi : {None, CrawlDoi}, pmcid : {None, CrawlPmcid}]

PubmedArticle == <<HTTPS, PUBMED_HOST, "/31/">>
PublisherPage == <<HTTPS, PUBLISHER_HOST, "/content/1">>
PmcDeep1 == <<HTTPS, PMC_HOST, "/articles/PMC", "7", "/">>
PmcDeep2 == <<HTTPS, PMC_HOST, "/articles/PMC", "8", "/">>

\* where a GET of u may end after redirects: at u itself, at the PubMed
\* article page, and for a DOI at the publisher's page
Finals(u) ==
    {u, PubmedArticle} \cup (IF Netloc(u) = DOI_HOST THEN {PublisherPage} ELSE {})

\* <a> elements: links to two PMC articles, the first result of a PubMed
\* search (a rooted href), and a result title without href
Anchors(m) ==
    { [href |-> PmcDeep1, docsum |-> FALSE],
      [href |-> PmcDeep2, docsum |-> FALSE] }
        \cup (IF m = "fulltext"
              THEN { [href |-> <<"/31/">>, docsum |-> TRUE],
                     [href |-> None, docsum |-> TRUE] }
              ELSE {})

\* the link every page with links starts with; it names no PMC host
HomeLink == [href |-> <<HTTPS, OTHER_HOST, "/paper">>, docsum |-> FALSE]

\* <img> elements: one inside <figure>, one inside a figure container with a
\* lazy-load source
ImgElems ==
    { [in_figure |-> TRUE, container |-> "", alt_fig |-> FALSE,
       data_src |-> None, src |-> <<"/", "a", ".", "p", "n", "g">>],
      [in_figure |-> FALSE, container |-> "div.fig", alt_fig |-> TRUE,
       data_src |-> <<HTTPS, "cdn.example.org", "/", "b", ".", "J", "P", "G">>,
       src |-> <<"/", "x">>] }

\* the image every page with images starts with; no pass picks it
LogoImg ==
    [in_figure |-> FALSE, container |-> "", alt_fig |-> FALSE,
     data_src |-> None, src |-> <<"/", "l", "o", "g", "o">>]

SeqsUpTo(S, n) == UNION {[1..k -> S] : k \in 0..n}

WithFirst(x, s) == IF s = <<>> THEN s ELSE <<x>> \o s

Words == <<"w">>

\* the visible text of the three regions: [main_content, article, page_text]
Texts ==
    { [main_content |-> Words, article |-> None, page_text |-> Words],
      [main_content |-> None, article |-> <<>>, page_text |-> Words],
      [main_content |-> None, article |-> None, page_text |-> <<>>] }

Page(anchors, imgs, t) ==
    [kind |-> "str", blank |-> FALSE, anchors |-> anchors, imgs |-> imgs,
     main_content |-> t.main_content, article |-> t.article, page_text |-> t.page_text]

\* the empty body ""
BlankPage == [HtmlNone EXCEPT !.kind = "str"]

PlainText == CHOOSE t \in Texts : t.main_content = Words

\* a page of PubMed search results: the title link of the first result, and
\* a link to a PMC article
SearchResults ==
    Page(<< [href |-> <<"/31/">>, docsum |-> TRUE], [href |-> PmcDeep2, docsum |-> FALSE] >>,
         <<>>, PlainText)

\* the bodies a page of the web may have: pages of links, and pages of what
\* the running script extracts (images for the figure crawl, text for the
\* full-text crawl), with and without a link
Pages(m) ==
    {Page(WithFirst(HomeLink, a), <<>>, PlainText) : a \in SeqsUpTo(Anchors(m), MaxLinks)}
        \cup (IF m = "figures"
              THEN {SearchResults} \cup
                   {Page(a, WithFirst(LogoImg, i), PlainText) :
                        a \in SeqsUpTo({[href |-> PmcDeep2, docsum |-> FALSE]}, 1),
                        i \in SeqsUpTo(ImgElems, MaxImgs) \ {<<>>}}
              ELSE {Page(a, <<>>, t) :
                        a \in SeqsUpTo({[href |-> PmcDeep2, docsum |-> FALSE]}, 1),
                        t \in Texts})

\* a body with links, images and text, served with the failing responses
RichPage ==
    Page(<< [href |-> PmcDeep2, docsum |-> FALSE], [href |-> <<"/31/">>, docsum |-> TRUE] >>,
         << CHOOSE i \in ImgElems : i.in_figure >>, PlainText)

NoResponse == [exc |-> TRUE, status |-> 0, ctype |-> "", url |-> None, text |-> HtmlNone]

Responses(u, m) ==
    {NoResponse}
        \cup [exc : {FALSE}, status : {404}, ctype : {"text/html"}, url : {PublisherPage},
              text : {RichPage}]
        \cup [exc : {FALSE}, status : {HTTP_OK}, ctype : {"application/pdf", ""},
              url : {PublisherPage}, text : {RichPage}]
        \cup [exc : {FALSE}, status : {HTTP_OK}, ctype : {"TEXT/HTML"}, url : {u},
              text : {BlankPage}]
        \cup [exc : {FALSE}, status : {HTTP_OK}, ctype : {"text/html"}, url : Finals(u),
              text : Pages(m)]

\* how one image download ends: kept, requests.get raised, a status other
\* than 200, or an empty body
DlOutcomes == {"ok", "exc", "status", "empty"}

----------------------------------------------------------------------------
(* The state machine. *)

File(name) == [stem |-> name, n |-> 0, ext |-> <<>>]

NoLast ==
    [url |-> None, exc |-> FALSE, status |-> 0, ctype |-> "", final_url |-> None,
     blank |-> FALSE, parsed |-> FALSE, cands |-> <<>>, enq |-> 0, got |-> 0, dl |-> <<>>,
     imgs |-> <<>>, first |-> None]

\* what the latest pass did: the response it got, whether the body was
\* handed to the HTML parser, the links it offered to the queue, how many of
\* them it enqueued, what it gained, for the figure crawl the image URLs it
\* extracted (imgs) and how the download of each ended (dl), and the href of
\* the first a.docsum-title of the page parsed
Last(url, resp, r, enq, got, dl) ==
    [url |-> url, exc |-> resp.exc, status |-> resp.status, ctype |-> resp.ctype,
     final_url |-> r.fetched.final_url, blank |-> resp.text.blank,
     parsed |-> r.parsed, cands |-> r.cands, enq |-> enq, got |-> got, dl |-> dl,
     imgs |-> <<>>, first |-> IF r.parsed THEN SelectDocsumTitle(resp.text) ELSE None]

\* origin, extended to the queue q by the number of the current attempt
Origins(q) ==
    [u \in Range(q) |-> IF u \in DOMAIN origin THEN origin[u] ELSE Len(gets) + 1]

StartState(entries, modes) ==
    /\ mode \in modes
    /\ known \in BOOLEAN
    /\ entry \in entries
    /\ pc = "start"
    /\ dirs = {}
    /\ url_queue = <<>>
    /\ idx = 0
    /\ visited = {}
    /\ tried = <<>>
    /\ downloaded_all = <<>>
    /\ full_html = HtmlNone
    /\ final_used_url = None
    /\ writes = <<>>
    /\ out = <<>>
    /\ gets = <<>>
    /\ last = NoLast
    /\ origin = <<>>
    /\ skips = 0
    /\ image_url = <<>>
    /\ fname = None

\* nothing seen of the web, no earlier run
NoWeb == [pages |-> <<>>, imgs |-> <<>>]

NoRun == [pc |-> "start", out |-> <<>>, writes |-> <<>>]

SingleRun == run = 0 /\ web = NoWeb /\ first_run = NoRun

\* no file exists
NoDisk ==
    [pdf_dir |-> <<>>, manifest_file |-> [exists |-> FALSE, data |-> <<>>],
     missing_log |-> [exists |-> FALSE, lines |-> <<>>],
     pdf_fetched_log |-> [exists |-> FALSE, lines |-> <<>>]]

\* merge.py does not run
NoExtract == soup = <<>> /\ uniq = None

NoMerge ==
    /\ bib_files = <<>> /\ bib_db = <<>> /\ merged_entries = <<>>
    /\ output_file = [written |-> FALSE, entries |-> <<>>]

\* fetch.py does not run
NoFetch ==
    /\ bib_entries = <<>> /\ sources = <<>> /\ fpc = "off" /\ fpos = 0
    /\ manifest = <<>> /\ disk = NoDisk /\ fout = <<>> /\ frun = 0 /\ first_disk = NoDisk

Init == StartState(CrawlEntries, {"figures", "fulltext", "legacy"}) /\ SingleRun /\ NoFetch /\ NoMerge /\ NoExtract

\* the entries of the seed-generation specification: every pmcid of up to
\* MaxIdLen characters, with and without a DOI
IdChars == {"P", "M", "C", "7", " "}

SeedEntries == [doi : {None, <<>>, CrawlDoi}, pmcid : {None} \cup SeqsUpTo(IdChars, MaxIdLen)]

InitSeeds == StartState(SeedEntries, {"figures", "fulltext"}) /\ SingleRun /\ NoFetch /\ NoMerge /\ NoExtract

\* download_figures.main up to the while loop
StartFigures ==
    /\ mode = "figures" /\ pc = "start"
    /\ dirs' = dirs \cup {"outdir", "outdir/figs"}
    /\ IF ~known
       THEN /\ pc' = "raised"
            /\ UNCHANGED <<url_queue, origin>>
       ELSE /\ pc' = "loop"
            /\ url_queue' = figure_seed_urls(entry)
            /\ origin' = [u \in Range(figure_seed_urls(entry)) |-> 0]
    /\ UNCHANGED <<mode, known, entry, idx, visited, tried, downloaded_all, full_html,
                   final_used_url, writes, out, gets, last, skips>>
    /\ UNCHANGED othervars

\* download_fulltext.main up to the while loop
StartFulltext ==
    /\ mode = "fulltext" /\ pc = "start"
    /\ dirs' = dirs \cup {"outdir"}
    /\ IF ~known
       THEN /\ pc' = "raised"
            /\ UNCHANGED <<url_queue, origin>>
       ELSE /\ pc' = "loop"
            /\ url_queue' = candidate_urls_for_entry(entry)
            /\ origin' = [u \in Range(candidate_urls_for_entry(entry)) |-> 0]
    /\ UNCHANGED <<mode, known, entry, idx, visited, tried, downloaded_all, full_html,
                   final_used_url, writes, out, gets, last, skips>>
    /\ UNCHANGED othervars

\* the pages of the web that does not change: two PMC links in either
\* order, or images and a PMC link
StaticPages ==
    {Page(WithFirst(HomeLink, a), <<>>, PlainText) :
        a \in [1..MaxLinks -> {[href |-> PmcDeep1, docsum |-> FALSE],
                               [href |-> PmcDeep2, docsum |-> FALSE]}]}
        \cup {Page(<<[href |-> PmcDeep2, docsum |-> FALSE]>>, WithFirst(LogoImg, i), PlainText) :
                 i \in [1..MaxImgs -> ImgElems]}

\* its answers: a request that fails, or one of these pages, served from
\* the PubMed article page
StaticResponses(url) ==
    {r \in Responses(url, "figures") :
        r.exc \/ (r.status = HTTP_OK /\ r.url = PubmedArticle /\ r.text \in StaticPages)}

StaticOutcomes == {"ok", "status"}

\* what requests.get may answer for a page: in a run against a web that does
\* not change, what it answered before
WebResponses(url) ==
    IF run = 0 THEN Responses(url, mode)
    ELSE IF url \in DOMAIN web.pages THEN {web.pages[url]}
    ELSE StaticResponses(url)

\* how the downloads of the images srcs may end, under the same condition
WebDownloads(srcs) ==
    IF run = 0 THEN [srcs -> DlOutcomes]
    ELSE {dl \in [srcs -> StaticOutcomes] :
             \A u \in srcs \cap DOMAIN web.imgs : dl[u] = web.imgs[u]}

\* the web seen after this pass
WebSeen(url, resp, dl) ==
    IF run = 0 THEN web
    ELSE [pages |-> (url :> resp) @@ web.pages, imgs |-> dl @@ web.imgs]

\* the loop condition without `and not downloaded_all`
FiguresLoopCondNoStop == idx < Len(url_queue)

\* while idx < len(url_queue) and not downloaded_all
FiguresLoopCond == idx < Len(url_queue) /\ downloaded_all = <<>>

\* the loop condition of the full-text crawl without its `not`
FulltextLoopCondNegated == idx < Len(url_queue) /\ ~NotHtml(full_html)

\* while idx < len(url_queue) and not full_html
FulltextLoopCond == idx < Len(url_queue) /\ NotHtml(full_html)

\* one pass of the while loop of download_figures.main
IterateFigures ==
    /\ mode = "figures" /\ pc = "loop" /\ FiguresLoopCond
    /\ LET url == url_queue[idx + 1] IN
       /\ idx' = idx + 1
       /\ IF url \in visited
          THEN /\ skips' = skips + 1
               /\ UNCHANGED <<pc, url_queue, visited, tried, downloaded_all, writes, gets,
                              last, origin, web>>
          ELSE \E resp \in WebResponses(url) :
               \E f \in {fetch_html(url, resp)} :
               \E dl \in WebDownloads(Range(extract_img_urls_from_html(f.final_url, f.html))) :
               \E r \in {try_download_from_url(url, resp, dl)} :
                  /\ web' = WebSeen(url, resp, dl)
                  /\ pc' = IF r.raised THEN "raised" ELSE "loop"
                  /\ gets' = Append(gets, url)
                  /\ visited' = r.visited
                  /\ url_queue' = r.url_queue
                  /\ origin' = Origins(r.url_queue)
                  /\ tried' = r.tried
                  /\ writes' = writes \o [i \in 1..Len(r.downloaded) |->
                                            [file |-> r.downloaded[i].file,
                                             data |-> r.downloaded[i].url]]
                  /\ downloaded_all' = downloaded_all \o r.downloaded
                  /\ last' = [Last(url, resp, r, Len(r.url_queue) - Len(url_queue),
                                   Len(r.downloaded), dl)
                                 EXCEPT !.imgs = IF r.parsed
                                                 THEN extract_img_urls_from_html(f.final_url, f.html)
                                                 ELSE <<>>]
                  /\ UNCHANGED skips
    /\ UNCHANGED <<mode, known, entry, dirs, full_html, final_used_url, out>>
    /\ UNCHANGED <<savevars, run, first_run, fetchvars, mergevars, extractvars>>

\* the end of download_figures.main without `if downloaded_all:`
FinishFiguresAlwaysMeta ==
    /\ mode = "figures" /\ pc = "loop" /\ ~(idx < Len(url_queue) /\ downloaded_all = <<>>)
    /\ pc' = "done"
    /\ writes' = Append(writes,
           [file |-> File("meta.json"),
            data |-> [source |-> "online", doi |-> entry.doi, pmcid |-> entry.pmcid,
                      figures |-> downloaded_all, tried_urls |-> url_queue,
                      trace |-> tried]])
    /\ out' = Append(out, "total figures downloaded")
    /\ UNCHANGED <<mode, known, entry, dirs, url_queue, idx, visited, tried, downloaded_all,
                   full_html, final_used_url, gets, last, origin, skips>>
    /\ UNCHANGED othervars

\* download_figures.main after the while loop
FinishFigures ==
    /\ mode = "figures" /\ pc = "loop" /\ ~FiguresLoopCond
    /\ pc' = "done"
    /\ IF downloaded_all # <<>>
       THEN /\ writes' = Append(writes,
                   [file |-> File("meta.json"),
                    data |-> [source |-> "online", doi |-> entry.doi, pmcid |-> entry.pmcid,
                              figures |-> downloaded_all, tried_urls |-> url_queue,
                              trace |-> tried]])
            /\ out' = Append(out, "total figures downloaded")
       ELSE /\ out' = Append(out, "no usable figures found")
            /\ UNCHANGED writes
    /\ UNCHANGED <<mode, known, entry, dirs, url_queue, idx, visited, tried, downloaded_all,
                   full_html, final_used_url, gets, last, origin, skips>>
    /\ UNCHANGED othervars

\* one pass of the while loop of download_fulltext.main
IterateFulltext ==
    /\ mode = "fulltext" /\ pc = "loop" /\ FulltextLoopCond
    /\ LET url == url_queue[idx + 1] IN
       /\ idx' = idx + 1
       /\ IF url \in visited
          THEN /\ skips' = skips + 1
               /\ UNCHANGED <<pc, url_queue, visited, tried, full_html, final_used_url,
                              gets, last, origin>>
          ELSE \E resp \in Responses(url, mode) :
               \E r \in {fulltext_pass(url, resp)} :
                  /\ pc' = IF r.raised THEN "raised" ELSE "loop"
                  /\ gets' = Append(gets, url)
                  /\ visited' = r.visited
                  /\ url_queue' = r.url_queue
                  /\ origin' = Origins(r.url_queue)
                  /\ tried' = r.tried
                  /\ full_html' = r.full_html
                  /\ final_used_url' = r.final_used_url
                  /\ last' = Last(url, resp, r, Len(r.url_queue) - Len(url_queue),
                                  IF NotHtml(r.full_html) THEN 0 ELSE 1, <<>>)
                  /\ UNCHANGED skips
    /\ UNCHANGED <<mode, known, entry, dirs, downloaded_all, writes, out>>
    /\ UNCHANGED othervars

\* download_fulltext.main after the while loop
FinishFulltext ==
    /\ mode = "fulltext" /\ pc = "loop" /\ ~FulltextLoopCond
    /\ pc' = "done"
    /\ IF NotHtml(full_html)
       THEN /\ out' = Append(out, "no usable HTML full text")
            /\ UNCHANGED writes
       ELSE /\ writes' = writes \o
                   << [file |-> File("full.html"), data |-> full_html],
                      [file |-> File("full.txt"), data |-> extract_main_text_from_html(full_html)],
                      [file |-> File("meta.json"),
                       data |-> [source |-> "online", doi |-> entry.doi, pmcid |-> entry.pmcid,
                                 used_url |-> final_used_url, tried_urls |-> url_queue,
                                 trace |-> tried]] >>
            /\ out' = Append(out, "saved HTML + text")
    /\ UNCHANGED <<mode, known, entry, dirs, url_queue, idx, visited, tried, downloaded_all,
                   full_html, final_used_url, gets, last, origin, skips>>
    /\ UNCHANGED othervars

\* src/code/download_figures.py: main up to the GET
StartLegacy ==
    /\ mode = "legacy" /\ pc = "start"
    /\ dirs' = dirs \cup {"outdir", "outdir/figs"}
    /\ IF ~known
       THEN pc' = "raised" /\ UNCHANGED out
       ELSE IF ~Truthy(entry.doi)
       THEN pc' = "done" /\ out' = Append(out, "no DOI")
       ELSE pc' = "get" /\ UNCHANGED out
    /\ UNCHANGED <<mode, known, entry, url_queue, idx, visited, tried, downloaded_all,
                   full_html, final_used_url, writes, gets, last, origin, skips>>
    /\ UNCHANGED othervars

\* src/code/download_figures.py: main from the GET to its end
RunLegacy ==
    /\ mode = "legacy" /\ pc = "get"
    /\ \E resp \in Responses(DoiUrl(entry.doi), "figures") :
       \E dl \in [IF resp.exc \/ resp.status # HTTP_OK THEN {}
                  ELSE Range(legacy_img_urls(resp.url, resp.text)) -> DlOutcomes] :
       \E r \in {legacy_run(resp, dl)} :
          /\ pc' = "done"
          /\ gets' = Append(gets, DoiUrl(entry.doi))
          /\ downloaded_all' = r.downloaded
          /\ writes' = [i \in 1..Len(r.downloaded) |->
                           [file |-> r.downloaded[i].file, data |-> r.downloaded[i].url]]
                       \o (IF r.downloaded # <<>>
                           THEN << [file |-> File("meta.json"),
                                    data |-> [source |-> "online", doi |-> entry.doi,
                                              publisher_url |-> r.final_url,
                                              figures |-> r.downloaded]] >>
                           ELSE <<>>)
          /\ out' = IF r.line # "" THEN Append(out, r.line)
                    ELSE IF r.downloaded = <<>> THEN Append(out, "no usable figures found")
                    ELSE out
          /\ last' = [NoLast EXCEPT !.url = DoiUrl(entry.doi), !.exc = resp.exc,
                                    !.status = resp.status, !.ctype = resp.ctype,
                                    !.final_url = r.final_url, !.blank = resp.text.blank,
                                    !.parsed = r.parsed, !.got = Len(r.downloaded),
                                    !.dl = dl]
    /\ UNCHANGED <<mode, known, entry, dirs, url_queue, idx, visited, tried, full_html,
                   final_used_url, origin, skips>>
    /\ UNCHANGED othervars

Next ==
    \/ StartFigures
    \/ StartFulltext
    \/ IterateFigures
    \/ FinishFigures
    \/ IterateFulltext
    \/ FinishFulltext
    \/ StartLegacy
    \/ RunLegacy

Spec == Init /\ [][Next]_vars

\* seed generation alone, over every entry of SeedEntries
NextSeeds ==
    \/ StartFigures
    \/ StartFulltext

SpecSeeds == InitSeeds /\ [][NextSeeds]_vars

----------------------------------------------------------------------------
(* The figure crawl run twice for the same entry, against a web that gives *)
(* every URL the same answer each time.                                    *)

InitRerun ==
    /\ StartState(CrawlEntries, {"figures"})
    /\ run = 1 /\ web = NoWeb /\ first_run = NoRun
    /\ NoFetch /\ NoMerge /\ NoExtract

\* a visited set that outlives the run
StaleVisited == visited

\* visited = set()
FreshVisited == {}

\* the script is started again: main begins with fresh locals; the output
\* directory and the web are as the first run left them
Rerun ==
    /\ mode = "figures" /\ run = 1 /\ pc \in {"done", "raised"}
    /\ run' = 2
    /\ first_run' = [pc |-> pc, out |-> out, writes |-> writes]
    /\ pc' = "start"
    /\ url_queue' = <<>>
    /\ idx' = 0
    /\ visited' = FreshVisited
    /\ tried' = <<>>
    /\ downloaded_all' = <<>>
    /\ writes' = <<>>
    /\ out' = <<>>
    /\ gets' = <<>>
    /\ last' = NoLast
    /\ origin' = <<>>
    /\ skips' = 0
    /\ UNCHANGED <<mode, known, entry, dirs, full_html, final_used_url, web, savevars,
                   fetchvars, mergevars, extractvars>>

NextRerun ==
    \/ StartFigures
    \/ IterateFigures
    \/ FinishFigures
    \/ Rerun

SpecRerun == InitRerun /\ [][NextRerun]_vars

----------------------------------------------------------------------------
(* The two crawl loops run to their end.  The figure crawl meets the web   *)
(* that gives every URL one answer, the full-text crawl every answer.      *)

InitLive ==
    /\ StartState(CrawlEntries, {"figures", "fulltext"})
    /\ run = 1 /\ web = NoWeb /\ first_run = NoRun
    /\ NoFetch /\ NoMerge /\ NoExtract

NextLive ==
    \/ StartFigures
    \/ StartFulltext
    \/ IterateFigures
    \/ FinishFigures
    \/ IterateFulltext
    \/ FinishFulltext

\* the scripts are sequential programs and every requests.get has a timeout
\* (timeout=15): a step of main that can be taken is taken
SpecLive == InitLive /\ [][NextLive]_vars /\ WF_vars(NextLive)

----------------------------------------------------------------------------
(* The naming of one saved image, over every image URL of ExtUrls.         *)

\* the pieces an image URL is made of: a path, the extensions in both cases,
\* halves of extensions, a query
ExtPieces ==
    { <<"/", "a">>, <<".", "p", "n", "g">>, <<".", "j", "p", "g">>, <<".", "J", "P", "G">>,
      <<".", "j", "p">>, <<"e", "g">>, <<".", "T", "i", "f">>, <<"f">>,
      <<".", "g", "i", "f">>, <<"?", "v", "=", "2">> }

RECURSIVE Concat(_)
Concat(parts) == IF parts = <<>> THEN <<>> ELSE parts[1] \o Concat(Tail(parts))

ExtUrls == {Concat(parts) : parts \in SeqsUpTo(ExtPieces, MaxParts)} \ {<<>>}

\* one of the two figure scripts is in its download loop, at the first
\* image, whose download was fine
InitSave ==
    /\ mode \in {"figures", "legacy"}
    /\ known = TRUE
    /\ entry = [doi |-> CrawlDoi, pmcid |-> None]
    /\ pc = "save"
    /\ dirs = {"outdir", "outdir/figs"}
    /\ url_queue = <<>>
    /\ idx = 0
    /\ visited = {}
    /\ tried = <<>>
    /\ downloaded_all = <<>>
    /\ full_html = HtmlNone
    /\ final_used_url = None
    /\ writes = <<>>
    /\ out = <<>>
    /\ gets = <<>>
    /\ last = NoLast
    /\ origin = <<>>
    /\ skips = 0
    /\ image_url \in ExtUrls
    /\ fname = None
    /\ SingleRun /\ NoFetch /\ NoMerge /\ NoExtract

\* try_download_from_url: from `ext = ".png"` to write_bytes
SaveFigure ==
    /\ mode = "figures" /\ pc = "save"
    /\ pc' = "saved"
    /\ fname' = FigureFile(1, ExtOf(image_url))
    /\ writes' = Append(writes, [file |-> fname', data |-> image_url])
    /\ UNCHANGED <<mode, known, entry, dirs, url_queue, idx, visited, tried, downloaded_all,
                   full_html, final_used_url, out, gets, last, origin, skips, image_url>>
    /\ UNCHANGED <<rerunvars, fetchvars, mergevars, extractvars>>

\* src/code/download_figures.py: from `ext = ".png"` to write_bytes
SaveLegacyFigure ==
    /\ mode = "legacy" /\ pc = "save"
    /\ pc' = "saved"
    /\ fname' = FigureFile(1, LegacyFirstCand(Lower(image_url), 1))
    /\ writes' = Append(writes, [file |-> fname', data |-> image_url])
    /\ UNCHANGED <<mode, known, entry, dirs, url_queue, idx, visited, tried, downloaded_all,
                   full_html, final_used_url, out, gets, last, origin, skips, image_url>>
    /\ UNCHANGED <<rerunvars, fetchvars, mergevars, extractvars>>

NextSave ==
    \/ SaveFigure
    \/ SaveLegacyFigure

SpecSave == InitSave /\ [][NextSave]_vars

----------------------------------------------------------------------------
(* src/src/bib/fetch.py: the PDF copy, run twice on the same .bib files    *)
(* and the same source PDFs.                                               *)

\* the paths the file fields name: two PDFs of the same name in different
\* directories, a PDF with an upper-case extension, a file that is no PDF
PathAX == [dir |-> "/a", stem |-> "x", ext |-> ".pdf"]
PathBX == [dir |-> "/b", stem |-> "x", ext |-> ".pdf"]
PathAY == [dir |-> "/a", stem |-> "y", ext |-> ".PDF"]
PathNote == [dir |-> "/a", stem |-> "n", ext |-> ".txt"]

PdfPaths == {PathAX, PathBX, PathAY}

\* Path(pdf_path).name
PathName(path) == <<path.stem, path.ext>>

\* the file fields: the parts between ";", stripped; none without a field
FileFields ==
    {<<>>, <<PathAX>>, <<PathBX>>, <<PathAY>>, <<PathNote>>, <<PathNote, PathBX>>}

\* pdf_path = None
NoPath == [dir |-> "", stem |-> "", ext |-> ""]

\* the entries of the .bib files: each with its key and its file field
BibEntries ==
    {es \in SeqsUpTo([ID : {"k1", "k2", "k3"}, file : FileFields], MaxEntries) :
        \A i \in DOMAIN es : es[i].ID = <<"k1", "k2", "k3">>[i]}

\* extract_pdf_path: the first part that ends in .pdf, whatever the case
RECURSIVE extract_pdf_path(_)
extract_pdf_path(file_field) ==
    IF file_field = <<>> THEN NoPath
    ELSE IF LowerTok(file_field[1].ext) = ".pdf" THEN file_field[1]
    ELSE extract_pdf_path(Tail(file_field))

\* md5sum(source)
md5sum(path) == sources[path]

\* open(log, "a").write(line)
AppendLine(log, line) == [exists |-> TRUE, lines |-> Append(log.lines, line)]

InitFetch ==
    /\ StartState({[doi |-> None, pmcid |-> None]}, {"fetch"}) /\ known = TRUE
    /\ SingleRun /\ NoMerge /\ NoExtract
    /\ bib_entries \in BibEntries
    /\ sources \in [PdfPaths -> {"missing", "h1", "h2"}]
    /\ fpc = "start" /\ fpos = 0 /\ manifest = <<>> /\ fout = <<>>
    /\ frun = 1 /\ first_disk = NoDisk
    /\ disk \in {NoDisk, [NoDisk EXCEPT !.pdf_dir = (PathName(PathAX) :> "h2")]}

\* main up to the loop over the .bib files: the manifest is loaded, the two
\* logs are reset
FetchStart ==
    /\ mode = "fetch" /\ fpc = "start"
    /\ fpc' = "entries"
    /\ fpos' = 1
    /\ manifest' = IF disk.manifest_file.exists THEN disk.manifest_file.data ELSE <<>>
    /\ disk' = [disk EXCEPT !.missing_log = [exists |-> FALSE, lines |-> <<>>],
                            !.pdf_fetched_log = [exists |-> @.exists, lines |-> <<>>]]
    /\ UNCHANGED <<bib_entries, sources, fout, frun, first_disk, crawlvars, savevars,
                   rerunvars, mergevars, extractvars>>

\* shutil.copy(source, target)
Copy(pdf_dir, target, src_hash) == (target :> src_hash) @@ pdf_dir

\* one pass of `for entry in bib.entries`
FetchEntry ==
    /\ mode = "fetch" /\ fpc = "entries" /\ fpos <= Len(bib_entries)
    /\ fpos' = fpos + 1
    /\ LET e == bib_entries[fpos]
           pdf_path == extract_pdf_path(e.file)
           target == PathName(pdf_path)
       IN  IF e.file = <<>> THEN
               /\ fout' = Append(fout, [line |-> "No file field", name |-> e.ID])
               /\ disk' = [disk EXCEPT !.missing_log =
                                          AppendLine(@, [line |-> "No file field", key |-> e.ID])]
               /\ UNCHANGED manifest
           ELSE IF pdf_path = NoPath \/ sources[pdf_path] = "missing" THEN
               /\ fout' = Append(fout, [line |-> "No PDF found", name |-> e.ID])
               /\ disk' = [disk EXCEPT !.missing_log =
                                          AppendLine(@, [line |-> "No PDF", key |-> e.ID])]
               /\ UNCHANGED manifest
           ELSE IF target \in DOMAIN disk.pdf_dir
                   /\ target \in DOMAIN manifest /\ manifest[target] = md5sum(pdf_path) THEN
               /\ fout' = Append(fout, [line |-> "Skipping (unchanged)", name |-> target])
               /\ UNCHANGED <<disk, manifest>>
           ELSE IF target \in DOMAIN disk.pdf_dir THEN
               /\ fout' = Append(fout, [line |-> "Overwriting changed file", name |-> target])
               /\ disk' = [disk EXCEPT !.pdf_dir = Copy(@, target, md5sum(pdf_path))]
               /\ manifest' = (target :> md5sum(pdf_path)) @@ manifest
           ELSE
               /\ fout' = Append(fout, [line |-> "Copied", name |-> target])
               /\ disk' = [disk EXCEPT !.pdf_dir = Copy(@, target, md5sum(pdf_path)),
                                       !.pdf_fetched_log = AppendLine(@, target)]
               /\ manifest' = (target :> md5sum(pdf_path)) @@ manifest
    /\ UNCHANGED <<bib_entries, sources, fpc, frun, first_disk, crawlvars, savevars,
                   rerunvars, mergevars, extractvars>>

\* main after the loops: the manifest is saved
FetchFinish ==
    /\ mode = "fetch" /\ fpc = "entries" /\ fpos > Len(bib_entries)
    /\ fpc' = "done"
    /\ disk' = [disk EXCEPT !.manifest_file = [exists |-> TRUE, data |-> manifest]]
    /\ UNCHANGED <<bib_entries, sources, fpos, manifest, fout, frun, first_disk, crawlvars,
                   savevars, rerunvars, mergevars, extractvars>>

\* the script is started a second time: the .bib files and the source PDFs
\* are as they were, the disk is as the first run left it
FetchAgain ==
    /\ mode = "fetch" /\ fpc = "done" /\ frun = 1
    /\ frun' = 2
    /\ first_disk' = disk
    /\ fpc' = "start"
    /\ fpos' = 0
    /\ manifest' = <<>>
    /\ fout' = <<>>
    /\ UNCHANGED <<bib_entries, sources, disk, crawlvars, savevars, rerunvars, mergevars, extractvars>>

NextFetch ==
    \/ FetchStart
    \/ FetchEntry
    \/ FetchFinish
    \/ FetchAgain

SpecFetch == InitFetch /\ [][NextFetch]_vars

----------------------------------------------------------------------------
(* src/src/bib/merge.py: merge_bib_files, over every list of .bib files.   *)

\* the names of the .bib files and the citekeys, each in ascending order
BibNames == <<"a.bib", "b.bib">>

IdOrder == <<"k1", "k2">>

\* sorted(): a stable sort of [rank, val] records by rank; the vals
RECURSIVE SortedByRank(_)
SortedByRank(s) ==
    IF s = <<>> THEN <<>>
    ELSE LET front == SortedByRank(SubSeq(s, 1, Len(s) - 1))
             x == s[Len(s)]
             k == Cardinality({i \in DOMAIN front : front[i].rank <= x.rank})
         IN  SubSeq(front, 1, k) \o <<x>> \o SubSeq(front, k + 1, Len(front))

Vals(s) == [i \in DOMAIN s |-> s[i].val]

\* sorted(bib_files)
SortedFiles(files) ==
    Vals(SortedByRank([i \in DOMAIN files |->
                          [rank |-> IndexOf(BibNames, files[i]), val |-> files[i]]]))

\* sorted(bib.entries, key=lambda e: e.get("ID", ""))
SortedEntries(entries) ==
    Vals(SortedByRank([i \in DOMAIN entries |->
                          [rank |-> IndexOf(IdOrder, entries[i].ID), val |-> entries[i]]]))

\* the entries as written in a .bib file: a citekey and a file field
MergeEntries == [ID : Range(IdOrder), file : {<<>>, <<PathAX>>, <<PathNote, PathBX>>}]

\* bibtexparser.load(f).entries; `rest` stands for the other fields of the
\* entry, which differ from entry to entry
Loaded(bibfile) ==
    [i \in DOMAIN bib_db[bibfile] |->
        [ID |-> bib_db[bibfile][i].ID, file |-> bib_db[bibfile][i].file,
         rest |-> <<bibfile, i>>]]

\* f"bib/pdfs/{Path(pdf_path).name}" if pdf_path else None
MergedFile(pdf_path) ==
    IF pdf_path = NoPath THEN None ELSE <<"bib/pdfs/">> \o PathName(pdf_path)

\* the body of the inner loop: the copy of the entry with its file replaced
MergedEntry(e) == [e EXCEPT !.file = MergedFile(extract_pdf_path(e.file))]

\* the two loops of merge_bib_files over the sorted files
RECURSIVE MergeLoop(_)
MergeLoop(files) ==
    IF files = <<>> THEN <<>>
    ELSE LET es == SortedEntries(Loaded(files[1]))
         IN  [i \in DOMAIN es |-> MergedEntry(es[i])] \o MergeLoop(Tail(files))

\* the lists of distinct file names, in every order
BibFileLists == {fs \in SeqsUpTo(Range(BibNames), Len(BibNames)) : NoDup(fs)}

InitMerge ==
    /\ StartState({[doi |-> None, pmcid |-> None]}, {"merge"}) /\ known = TRUE
    /\ SingleRun /\ NoFetch /\ NoExtract
    /\ bib_db \in [Range(BibNames) -> SeqsUpTo(MergeEntries, MaxEntries)]
    /\ bib_files \in BibFileLists
    /\ merged_entries = <<>>
    /\ output_file = [written |-> FALSE, entries |-> <<>>]

\* merge_bib_files(bib_files, output_file); the entries are written as
\* they are handed to bibtexparser.dump
MergeBibFiles ==
    /\ mode = "merge" /\ pc = "start"
    /\ pc' = "done"
    /\ merged_entries' = MergeLoop(SortedFiles(bib_files))
    /\ output_file' = [written |-> TRUE, entries |-> merged_entries']
    /\ UNCHANGED <<mode, known, entry, dirs, url_queue, idx, visited, tried, downloaded_all,
                   full_html, final_used_url, writes, out, gets, last, origin, skips>>
    /\ UNCHANGED <<bib_files, bib_db, savevars, rerunvars, fetchvars, extractvars>>

NextMerge == MergeBibFiles

SpecMerge == InitMerge /\ [][NextMerge]_vars

----------------------------------------------------------------------------
(* extract_img_urls_from_html taken alone, over every page of up to        *)
(* MaxImgs <img> elements of ExtractImgs.                                  *)

\* base_url
ExtractBase == <<HTTPS, PUBLISHER_HOST, "/content/1">>

\* where an <img> stands: [in_figure, container, alt_fig]
Placements ==
    { [in_figure |-> TRUE, container |-> "", alt_fig |-> FALSE],
      [in_figure |-> FALSE, container |-> "div.figures", alt_fig |-> FALSE],
      [in_figure |-> FALSE, container |-> "li.fig", alt_fig |-> FALSE],
      [in_figure |-> FALSE, container |-> "", alt_fig |-> TRUE],
      [in_figure |-> FALSE, container |-> "", alt_fig |-> FALSE],
      [in_figure |-> TRUE, container |-> "", alt_fig |-> TRUE],
      [in_figure |-> FALSE, container |-> "li.fig", alt_fig |-> TRUE] }

RootedA == <<"/", "a", ".", "p", "n", "g">>

AbsA == <<HTTPS, PUBLISHER_HOST>> \o RootedA

AbsB == <<HTTPS, "cdn.example.org", "/", "b", ".", "J", "P", "G">>

\* its attributes [data_src, src]: absent (None), empty, rooted, absolute
Sources ==
    { [data_src |-> None, src |-> None],
      [data_src |-> None, src |-> <<>>],
      [data_src |-> None, src |-> RootedA],
      [data_src |-> <<>>, src |-> RootedA],
      [data_src |-> AbsB, src |-> RootedA],
      [data_src |-> AbsA, src |-> None] }

ExtractImgs ==
    { [in_figure |-> p.in_figure, container |-> p.container, alt_fig |-> p.alt_fig,
       data_src |-> a.data_src, src |-> a.src] : p \in Placements, a \in Sources }

InitExtract ==
    /\ StartState({[doi |-> None, pmcid |-> None]}, {"extract"}) /\ known = TRUE
    /\ SingleRun /\ NoFetch /\ NoMerge
    /\ soup \in SeqsUpTo(ExtractImgs, MaxImgs)
    /\ uniq = None

\* uniq = extract_img_urls_from_html(base_url, html)
ExtractImgUrls ==
    /\ mode = "extract" /\ pc = "start"
    /\ pc' = "done"
    /\ uniq' = extract_img_urls_from_html(ExtractBase, Page(<<>>, soup, PlainText))
    /\ UNCHANGED <<mode, known, entry, dirs, url_queue, idx, visited, tried, downloaded_all,
                   full_html, final_used_url, writes, out, gets, last, origin, skips>>
    /\ UNCHANGED <<soup, savevars, rerunvars, fetchvars, mergevars>>

NextExtract == ExtractImgUrls

SpecExtract == InitExtract /\ [][NextExtract]_vars

----------------------------------------------------------------------------
(* The claims. *)

\* one of the two crawl loops runs
Crawl == mode \in {"figures", "fulltext"}

\* the run has its terminal success: a figure is saved, or a page accepted
Succeeded == IF mode = "fulltext" THEN ~NotHtml(full_html) ELSE downloaded_all # <<>>

NotFoundLine ==
    IF mode = "fulltext" THEN "no usable HTML full text" ELSE "no usable figures found"

MetaWritten == \E i \in DOMAIN writes : writes[i].file = File("meta.json")

\* the latest pass fetched a page (the loop has made an attempt)
Attempted == last.url # None

\* C1: first success wins in both crawl loops.  Once an attempt has brought
\* the terminal success no page is fetched any more, and the attempt that
\* brought it is the last fetch of the run, also when URLs of the frontier
\* were never attempted.
C1_FirstSuccessWins ==
    [][ /\ Succeeded => gets' = gets
        /\ Succeeded' => /\ gets' # <<>>
                         /\ last'.url = gets'[Len(gets')]
                         /\ last'.got > 0 ]_vars

\* a figure run for a DOI-only entry has ended after a single fetch, of the
\* DOI page, which gave a figure; the PubMed candidate was never fetched
C1_Witness ==
    /\ mode = "figures" /\ pc = "done" /\ Succeeded
    /\ entry.pmcid = None
    /\ gets = <<DoiUrl(CrawlDoi)>>
    /\ PubmedSearchUrl(CrawlDoi) \in Range(url_queue) \ visited

\* the frontier was seeded with three URLs [A, B, C]; the attempt on A gave
\* no image and discovered D; the attempt on D gave two images
C2_Scenario(D) ==
    /\ mode = "figures"
    /\ Cardinality({u \in DOMAIN origin : origin[u] = 0}) = 3
    /\ D \in DOMAIN origin /\ origin[D] = 1
    /\ last.url = D
    /\ Len(downloaded_all) = 2

\* C2 as stated: in that scenario the loop stops at D and never attempts B
\* or C.
C2_Original ==
    \A D \in DOMAIN origin :
        C2_Scenario(D) => url_queue[2] \notin visited /\ url_queue[3] \notin visited

\* C2, amended: in that scenario D was queued behind C, so B and C are
\* attempted, in this order, before D; the loop stops at D.
C2_StopsAtDAfterBAndC ==
    \A D \in DOMAIN origin :
        C2_Scenario(D) =>
            /\ SubSeq(url_queue, 1, 3) = figure_seed_urls(entry)
            /\ gets = <<url_queue[1], url_queue[2], url_queue[3], D>>
            /\ ~FiguresLoopCond

C2_Witness ==
    \E D \in DOMAIN origin : C2_Scenario(D) /\ pc = "done" /\ Len(tried) = 4

\* every attempted URL has all the URLs queued in front of it attempted
\* before it
AttemptedInQueueOrder ==
    \A i \in DOMAIN gets :
        /\ gets[i] \in Range(url_queue)
        /\ \A p \in 1..(IndexOf(url_queue, gets[i]) - 1) :
               url_queue[p] \in Range(SubSeq(gets, 1, i - 1))

\* C3: attempts occur in frontier order in both crawls.  A step only ever
\* appends to the frontier (what was queued stays where it is), and the URLs
\* are fetched in the order they stand in the frontier.
C3_FifoOrder ==
    [][ Crawl => (IsPrefix(url_queue, url_queue') /\ AttemptedInQueueOrder') ]_vars

\* a link discovered by the first attempt was fetched third or later, behind
\* the URLs queued before it
C3_Witness ==
    \E i \in DOMAIN gets : i >= 3 /\ origin[gets[i]] = 1

\* C4: no URL is fetched twice and the frontier holds no duplicate; what is
\* still to be attempted holds no visited URL, and the loop never takes its
\* `if url in visited: continue`.
C4_NoRefetch ==
    /\ NoDup(gets)
    /\ NoDup(url_queue)
    /\ \A p \in (idx + 1)..Len(url_queue) : url_queue[p] \notin visited
    /\ skips = 0

\* a page offered a link to a URL visited before, and it was not enqueued
C4_Witness ==
    /\ Attempted
    /\ \E c \in Range(last.cands) : c \in visited /\ c # last.url
    /\ Len(last.cands) > last.enq

\* one trace entry per fetch, in the order of the fetches
TracePerAttempt ==
    /\ Len(tried) = Cardinality(visited)
    /\ Len(tried) = Cardinality(Range(gets))
    /\ Len(tried) = Len(gets)
    /\ \A i \in DOMAIN tried : tried[i].url = gets[i]

\* C5: after every step of either loop the trace holds one entry per fetch
\* attempt, in attempt order, as many as the visited set has members; a
\* later trace extends the earlier one.
C5_TraceMatchesAttempts ==
    [][ Crawl => (IsPrefix(tried, tried') /\ TracePerAttempt') ]_vars

\* a run has ended with a failed attempt in its trace and with more URLs
\* enqueued than attempted
C5_Witness ==
    /\ pc = "done" /\ Len(tried) >= 2
    /\ Len(url_queue) > Len(tried)
    /\ \E i \in DOMAIN tried : tried[i].final_url = None

\* C6: for an entry with neither DOI nor PMC id the run fetches nothing, has
\* an empty result and an empty trace, and writes no file.
C6_NothingToTry ==
    (~Truthy(entry.doi) /\ ~Truthy(entry.pmcid)) =>
        /\ url_queue = <<>> /\ gets = <<>> /\ tried = <<>>
        /\ downloaded_all = <<>> /\ NotHtml(full_html)
        /\ writes = <<>>
        /\ dirs \subseteq {"outdir", "outdir/figs"}
        /\ pc \in {"start", "loop", "done", "raised"}
        /\ pc = "raised" => ~known

C6_Witness ==
    /\ ~Truthy(entry.doi) /\ ~Truthy(entry.pmcid)
    /\ known /\ pc = "done" /\ out = <<NotFoundLine>> /\ mode = "fulltext"

\* the digits of an id
Digits(id) == SelectSeq(id, LAMBDA c : c = "7")

\* C7: the seed list is the PMC article URL if a PMC id is present, then, if
\* a DOI is present, the DOI-resolver URL and the PubMed search URL, in this
\* order and without duplicates; both scripts build the same list.
C7_SeedList ==
    pc = "loop" =>
        LET hasP == Truthy(entry.pmcid)
            hasD == Truthy(entry.doi)
            n == Len(url_queue)
        IN  /\ NoDup(url_queue)
            /\ n = (IF hasP THEN 1 ELSE 0) + (IF hasD THEN 2 ELSE 0)
            /\ hasP => /\ SubSeq(url_queue[1], 1, 3) = <<HTTPS, PMC_HOST, "/articles/PMC">>
                       /\ url_queue[1][Len(url_queue[1])] = "/"
                       /\ (Digits(entry.pmcid) # <<>>
                             /\ entry.pmcid \in {Digits(entry.pmcid),
                                                 <<"P", "M", "C">> \o Digits(entry.pmcid)})
                          => url_queue[1] = <<HTTPS, PMC_HOST, "/articles/PMC">>
                                               \o Digits(entry.pmcid) \o <<"/">>
            /\ hasD => /\ url_queue[n - 1] = <<HTTPS, DOI_HOST, "/">> \o entry.doi
                       /\ url_queue[n] = <<HTTPS, PUBMED_HOST, "/?term=">> \o entry.doi
            /\ figure_seed_urls(entry) = candidate_urls_for_entry(entry)

\* the full-text script has seeded three URLs for an entry with DOI and a
\* pmcid written with its PMC prefix
C7_Witness ==
    /\ mode = "fulltext" /\ pc = "loop"
    /\ entry.pmcid = <<"P", "M", "C", "7">> /\ entry.doi = CrawlDoi
    /\ Len(url_queue) = 3

\* the latest fetch of a crawl loop was answered with a content type that is
\* not HTML
LastNonHtml == Crawl /\ Attempted /\ ~last.exc /\ ~TokHas(LowerTok(last.ctype), "html")

\* C8 as stated: such a fetch reaches neither link extraction nor terminal
\* extraction, and its trace entry has the status label no_html.
C8_Original ==
    LastNonHtml =>
        /\ ~last.parsed /\ last.enq = 0 /\ last.got = 0
        /\ "status" \in DOMAIN tried[Len(tried)]
        /\ tried[Len(tried)].status = "no_html"

\* C8, amended: such a fetch reaches neither link extraction nor terminal
\* extraction; the figure crawl traces it with status no_html, the full-text
\* crawl, whose trace entries have no status, with ctype "unknown"; neither
\* records a resolved URL.
C8_NonHtmlSkipped ==
    LastNonHtml =>
        /\ ~last.parsed /\ last.enq = 0 /\ last.got = 0
        /\ LET e == tried[Len(tried)]
           IN  /\ e.url = last.url
               /\ e.final_url = None
               /\ mode = "figures" => e.status = "no_html"
               /\ mode = "fulltext" => "status" \notin DOMAIN e /\ e.ctype = "unknown"

C8_Witness ==
    /\ LastNonHtml /\ mode = "fulltext"
    /\ last.status = HTTP_OK /\ last.ctype = "application/pdf"

\* the latest fetch of a crawl loop failed: a transport exception, a status other than 200,
\* or a body that is not HTML
LastFailed ==
    /\ Crawl /\ Attempted
    /\ last.exc \/ last.status # HTTP_OK \/ ~TokHas(LowerTok(last.ctype), "html")

\* C9: a failed page fetch never raises and never ends the crawl: the attempt
\* is in the trace, and the loop takes the next frontier entry, or, with none
\* left, ends with the not-found line.
C9_FailedFetchRecovered ==
    LastFailed =>
        /\ pc \in {"loop", "done"}
        /\ tried # <<>> /\ tried[Len(tried)].url = last.url
        /\ ~Succeeded
        /\ pc = "loop" => IF idx < Len(url_queue)
                          THEN ENABLED (IterateFigures \/ IterateFulltext)
                          ELSE ENABLED (FinishFigures \/ FinishFulltext)
        /\ pc = "done" => idx = Len(url_queue) /\ out = <<NotFoundLine>>

\* a run has ended Exhausted and its last fetch raised in requests.get
C9_Witness == LastFailed /\ last.exc /\ pc = "done" /\ Len(gets) >= 2

\* C10: a run without terminal success has written no file at any point; it
\* ends with the not-found line and does not raise; meta.json is only there
\* after a run that succeeded.
C10_ExhaustedWritesNothing ==
    /\ ~Succeeded => writes = <<>>
    /\ (Crawl /\ pc = "done" /\ ~Succeeded) => out = <<NotFoundLine>>
    /\ pc = "raised" => ~known
    /\ MetaWritten => Succeeded /\ pc = "done"

\* a figure run has ended Exhausted although its last page had images: every
\* download of them failed
C10_Witness ==
    /\ pc = "done" /\ ~Succeeded /\ Len(gets) >= 2
    /\ mode = "figures" /\ DOMAIN last.dl # {}

\* the writes of figure files and of meta.json
FigureWrites == {i \in DOMAIN writes : writes[i].file.stem = "figure_"}

MetaWrites == {i \in DOMAIN writes : writes[i].file = File("meta.json")}

LoopEnded ==
    /\ pc = "loop"
    /\ IF mode = "fulltext" THEN ~FulltextLoopCond ELSE ~FiguresLoopCond

\* C11: no partial output in the two crawls.  Every figure file on disk holds
\* an image whose own download succeeded; meta.json is written at most once,
\* by the step that follows the end of the loop, as the last write of the
\* run, and nothing is written after it.
C11_NoPartialOutput ==
    [][ Crawl =>
          /\ \A i \in FigureWrites' :
                 /\ writes'[i].data \in DOMAIN last'.dl
                 /\ last'.dl[writes'[i].data] = "ok"
          /\ Cardinality(MetaWrites') <= 1
          /\ MetaWrites' # {} => MetaWrites' = {Len(writes')} /\ pc' = "done"
          /\ (MetaWrites' # {} /\ MetaWrites = {}) => LoopEnded
          /\ MetaWrites # {} => writes' = writes ]_vars

\* a figure run has ended with meta.json written behind a figure file, and
\* the download of another image of the same page had failed
C11_Witness ==
    /\ mode = "figures" /\ pc = "done"
    /\ MetaWrites = {Len(writes)} /\ FigureWrites # {}
    /\ \E u \in DOMAIN last.dl : last.dl[u] \in {"status", "empty"}

\* the URLs of the images the latest pass extracted whose download succeeded,
\* in extraction order
OkImgs == SelectSeq(last.imgs, LAMBDA u : last.dl[u] = "ok")

\* C12: per-image failures are isolated.  The figures saved from a page are
\* exactly the extracted images whose own download succeeded, in extraction
\* order, each with its file written; a failed download does not raise.
C12_FailuresIsolated ==
    (mode = "figures" /\ Attempted) =>
        /\ pc # "raised"
        /\ [i \in DOMAIN downloaded_all |-> downloaded_all[i].url] = OkImgs
        /\ [i \in DOMAIN downloaded_all |-> downloaded_all[i].file]
              = [i \in DOMAIN downloaded_all |-> writes[i].file]
        /\ \A u \in Range(last.imgs) :
               last.dl[u] = "ok" <=> \E i \in FigureWrites : writes[i].data = u

\* the page gave two images: the download of the first failed, the second
\* is saved
C12_Witness ==
    /\ mode = "figures" /\ Len(last.imgs) = 2
    /\ last.dl[last.imgs[1]] \in {"exc", "status", "empty"}
    /\ last.dl[last.imgs[2]] = "ok"
    /\ Len(downloaded_all) = 1 /\ downloaded_all[1].url = last.imgs[2]

\* the lowercased URL holds ".jpg" / one of the extensions the scripts know
JpgIn(u) == Contains(Lower(u), <<".", "j", "p", "g">>)

KnownExtIn(u) == \E k \in DOMAIN EXT_CANDS : Contains(Lower(u), EXT_CANDS[k])

\* C13: extension inference.  Every saved image whose URL contains ".jpg"
\* anywhere, in any case, has a file name ending in ".jpg", and every saved
\* image whose URL contains none of the known extensions has one ending in
\* ".png".
C13_JpgAnywhere ==
    pc = "saved" =>
        /\ JpgIn(image_url) => fname.ext = <<".", "j", "p", "g">>
        /\ ~KnownExtIn(image_url) => fname.ext = <<".", "p", "n", "g">>

\* C14: the saved figures are numbered without gap, in extraction order: the
\* k-th figure recorded in the run's result is in the file figure_k.
C14_SequentialNames ==
    \A k \in DOMAIN downloaded_all :
        /\ downloaded_all[k].file.stem = "figure_"
        /\ downloaded_all[k].file.n = k

\* the host the latest pass ended on, after redirects
LastHost == Netloc(FinalOr(last.final_url, last.url))

OnPubmed == TokHas(LastHost, PUBMED_HOST)

\* neither PubMed nor PMC nor a recognized publisher
OnOtherHost == ~OnPubmed /\ ~TokHas(LastHost, PMC_HOST) /\ ~TokHas(LastHost, PUBLISHER_HOST)

\* C15: terminal extraction only in the terminal role.  In both crawls a
\* PubMed-host page gives at most new frontier links and no terminal content
\* (images, main text), and a page of another host that is neither PMC nor
\* a recognized publisher gives neither links nor terminal content.
C15_TerminalOnlyInTerminalRole ==
    (Crawl /\ Attempted) =>
        /\ OnPubmed => last.got = 0
        /\ OnOtherHost => last.got = 0 /\ last.enq = 0

\* the figure crawl has ended with an image taken from a PubMed-host page,
\* leaving the PMC link of that page unfetched
C15_Witness ==
    /\ mode = "figures" /\ pc = "done" /\ OnPubmed
    /\ last.got > 0 /\ last.enq > 0

\* the latest pass parsed a page of PubMed search results
OnSearchPage ==
    /\ Crawl /\ Attempted /\ last.parsed
    /\ OnPubmed /\ "/?term=" \in Range(FinalOr(last.final_url, last.url))

\* the first search-result title link of that page, made absolute
FirstResult == urljoin(last.final_url, last.first)

\* the URLs the latest pass appended to the frontier
LastEnqueued == SubSeq(url_queue, Len(url_queue) - last.enq + 1, Len(url_queue))

\* C16: in both crawls a page of PubMed search results puts the href of its
\* first search-result title link, if there is one, on the frontier (unless
\* it is there or visited already), and no other link of that page.
C16_FirstResultEnqueued ==
    OnSearchPage =>
        /\ Truthy(last.first) => FirstResult \in Range(url_queue)
        /\ Range(LastEnqueued) \subseteq
              (IF Truthy(last.first) THEN {FirstResult} ELSE {})

\* the figure crawl has parsed a page of search results: the first result
\* is not on the frontier, the PMC link of the page is
C16_Witness ==
    /\ OnSearchPage /\ mode = "figures"
    /\ Truthy(last.first) /\ FirstResult \notin Range(url_queue)
    /\ LastEnqueued = <<PmcDeep2>>

\* C17: the full-text crawl succeeds only with a nonempty main text: the
\* text extracted from the accepted page is nonempty, and so is every
\* full.txt written.
C17_TextNonempty ==
    /\ (mode = "fulltext" /\ Succeeded) => extract_main_text_from_html(full_html) # <<>>
    /\ \A i \in DOMAIN writes :
           writes[i].file = File("full.txt") => writes[i].data # <<>>

\* a full-text run has ended with the success line and an empty full.txt
C17_Witness ==
    /\ mode = "fulltext" /\ pc = "done" /\ out = <<"saved HTML + text">>
    /\ \E i \in DOMAIN writes : writes[i].file = File("full.txt") /\ writes[i].data = <<>>

\* C18: a full-text run that succeeded has written full.html, full.txt and
\* meta.json, each once and nothing else; used_url of meta.json is the
\* resolved URL of the accepted page, which is the resolved URL of the last
\* trace entry and is on the PMC host or the recognized publisher's.
C18_FulltextOutput ==
    (mode = "fulltext" /\ pc = "done" /\ Succeeded) =>
        /\ [i \in DOMAIN writes |-> writes[i].file]
              = <<File("full.html"), File("full.txt"), File("meta.json")>>
        /\ writes[1].data = full_html
        /\ LET meta == writes[3].data IN
              /\ meta.used_url = last.final_url
              /\ meta.trace = tried
              /\ meta.used_url = tried[Len(tried)].final_url
              /\ \/ TokHas(Netloc(meta.used_url), PMC_HOST)
                 \/ TokHas(Netloc(meta.used_url), PUBLISHER_HOST)

\* a full-text run has succeeded at its second attempt, on the publisher's
\* page that the DOI redirected to
C18_Witness ==
    /\ mode = "fulltext" /\ pc = "done" /\ Succeeded
    /\ Len(tried) = 2
    /\ last.url = DoiUrl(CrawlDoi) /\ last.final_url = PublisherPage

\* a run wrote meta.json; what it wrote
HasMeta(ws) == \E i \in DOMAIN ws : ws[i].file = File("meta.json")

MetaOf(ws) == ws[CHOOSE i \in DOMAIN ws : ws[i].file = File("meta.json")].data

FigureUrls(meta) == {meta.figures[i].url : i \in DOMAIN meta.figures}

WithPdf ==
    {i \in DOMAIN bib_entries :
        /\ extract_pdf_path(bib_entries[i].file) # NoPath
        /\ sources[extract_pdf_path(bib_entries[i].file)] # "missing"}

Printed(line) == {i \in DOMAIN fout : fout[i].line = line}

\* C20: the PDF copy is idempotent.  A second run on the same .bib files and
\* source PDFs copies and overwrites nothing, skips every entry whose PDF
\* exists as unchanged, and leaves the target directory and the manifest as
\* the first run left them, whatever the entries, also when two of them
\* have the same target file name.
C20_SecondRunCopiesNothing ==
    (frun = 2 /\ fpc = "done") =>
        /\ Printed("Copied") = {} /\ Printed("Overwriting changed file") = {}
        /\ Cardinality(Printed("Skipping (unchanged)")) = Cardinality(WithPdf)
        /\ disk.pdf_dir = first_disk.pdf_dir
        /\ disk.manifest_file = first_disk.manifest_file

\* the second run has overwritten the same target twice: two entries link
\* PDFs of the same name and different content
C20_Witness ==
    /\ frun = 2 /\ fpc = "done"
    /\ Cardinality(Printed("Overwriting changed file")) = 2
    /\ disk.pdf_dir = first_disk.pdf_dir

\* the input entries of the files of the list, file by file in ascending
\* file name, and in each file by ascending citekey
InputEntries ==
    LET names == SelectSeq(BibNames, LAMBDA f : f \in Range(bib_files))
        OfFile(f) == SelectSeq(Loaded(f), LAMBDA e : e.ID = IdOrder[1])
                         \o SelectSeq(Loaded(f), LAMBDA e : e.ID # IdOrder[1])
    IN  IF names = <<>> THEN <<>>
        ELSE IF Len(names) = 1 THEN OfFile(names[1])
        ELSE OfFile(names[1]) \o OfFile(names[2])

\* the file name at the end of the last part of a file field
Basename(file_field) == PathName(file_field[Len(file_field)])

\* C21: merge_bib_files is deterministic and leaves its inputs alone.
\* Whatever the order of the file list, the output holds every input entry
\* once, file by file in sorted file order and by ascending citekey in each
\* file, each unchanged but for its file field, which is bib/pdfs/<basename>.
C21_MergeDeterministic ==
    output_file.written =>
        /\ Len(output_file.entries) = Len(InputEntries)
        /\ \A i \in DOMAIN InputEntries :
               /\ output_file.entries[i].ID = InputEntries[i].ID
               /\ output_file.entries[i].rest = InputEntries[i].rest
               /\ InputEntries[i].file # <<>> =>
                      output_file.entries[i].file
                          = <<"bib/pdfs/">> \o Basename(InputEntries[i].file)
               /\ InputEntries[i].file = <<>> =>
                      output_file.entries[i].file = <<>>

\* the files were listed in descending order and the output has an entry
\* whose file field is None
C21_Witness ==
    /\ output_file.written /\ bib_files = <<"b.bib", "a.bib">>
    /\ \E i \in DOMAIN output_file.entries : output_file.entries[i].file = None

\* the loop has ended Succeeded, or Exhausted with the frontier consumed
LoopTerminated == pc = "done" /\ (Succeeded \/ idx = Len(url_queue))

\* every URL was fetched at most once, and only URLs of the frontier were
FetchedOncePerUrl ==
    /\ Range(gets) \subseteq Range(url_queue)
    /\ Len(gets) <= Cardinality(Range(url_queue))
    /\ \A u \in Range(url_queue) : Cardinality({i \in DOMAIN gets : gets[i] = u}) <= 1

\* C22: each crawl loop terminates.  A crawl that has entered its loop
\* reaches Succeeded or Exhausted, and at no time has it fetched a URL of the
\* frontier more than once, although the frontier grows while it is consumed.
C22_LoopTerminates ==
    /\ [](Crawl => FetchedOncePerUrl)
    /\ (Crawl /\ pc = "loop") ~> LoopTerminated

\* a crawl ended Exhausted after a page it fetched had added to the frontier
C22_Witness ==
    /\ Crawl /\ LoopTerminated /\ ~Succeeded
    /\ \E u \in DOMAIN origin : origin[u] > 0
    /\ Len(gets) = Len(url_queue)

\* how the fetch of an attempt ended, by the tests of fetch_html in their
\* order: requests.get raised, the status is not 200, the content type is
\* not HTML, or none of these
Outcome(l) ==
    IF l.exc THEN "TransportError"
    ELSE IF l.status # HTTP_OK THEN "HttpError"
    ELSE IF ~TokHas(LowerTok(l.ctype), "html") THEN "NonHtml"
    ELSE "Success"

\* the status label of the latest trace entry
LastLabel(trace) == trace[Len(trace)].status

\* C23: the status label of the trace entry of an attempt of the figure
\* crawl tells how its fetch ended: two attempts that follow each other and
\* carry the same label ended with the same one of Success, HttpError,
\* TransportError and NonHtml.
C23_LabelTellsOutcome ==
    [][ (mode = "figures" /\ Attempted /\ Len(tried') = Len(tried) + 1
            /\ LastLabel(tried') = LastLabel(tried))
           => Outcome(last') = Outcome(last) ]_vars

\* the latest fetch was answered with a status other than 200; its trace
\* entry and the one before it carry the label no_html and no resolved URL
C23_Witness ==
    /\ mode = "figures" /\ Len(tried) >= 2
    /\ Outcome(last) = "HttpError"
    /\ tried[Len(tried)].status = "no_html"
    /\ tried[Len(tried) - 1].status = "no_html"
    /\ tried[Len(tried)].final_url = None

\* what an image contributes: its data-src if it has one, otherwise its
\* src, otherwise nothing
Contribution(img) ==
    IF img.data_src # None /\ img.data_src # <<>> THEN <<urljoin(ExtractBase, img.data_src)>>
    ELSE IF img.src # None /\ img.src # <<>> THEN <<urljoin(ExtractBase, img.src)>>
    ELSE <<>>

\* the places at which the strategies list the URL u: (a) the images inside
\* <figure>, (b) selector by selector the images inside its containers, (c)
\* the images with "fig" in alt or title; each in document order
Occurrences(u) ==
    LET n == Len(soup) + 1
        Givers == {i \in DOMAIN soup : Contribution(soup[i]) = <<u>>}
        InFigure == {i \in Givers : soup[i].in_figure}
        InContainer(j) == {i \in Givers : soup[i].container = SELECTORS[j]}
        ByAlt == {i \in Givers : soup[i].alt_fig}
    IN  InFigure
            \cup UNION {{n * j + i : i \in InContainer(j)} : j \in DOMAIN SELECTORS}
            \cup {n * (Len(SELECTORS) + 1) + i : i \in ByAlt}

FirstOccurrence(u) == CHOOSE k \in Occurrences(u) : \A m \in Occurrences(u) : k <= m

\* C24: extract_img_urls_from_html returns a list without duplicates of
\* exactly the URLs the three strategies list, ordered by the first place at
\* which the strategies, taken in their order, list each; an image gives its
\* data-src, without one its src, and nothing without either.
C24_ExtractedInOrder ==
    uniq # None =>
        /\ NoDup(uniq)
        /\ \A u \in {AbsA, AbsB} : u \in Range(uniq) <=> Occurrences(u) # {}
        /\ Range(uniq) \subseteq {AbsA, AbsB}
        /\ \A a, b \in DOMAIN uniq :
               a < b => FirstOccurrence(uniq[a]) < FirstOccurrence(uniq[b])

\* the second image of the page stands in a container and has both
\* attributes, the first is found by its alt text only: the list starts
\* with the data-src of the second
C24_Witness ==
    /\ uniq # None /\ Len(soup) = 2 /\ Len(uniq) = 2
    /\ soup[1].alt_fig /\ ~soup[1].in_figure /\ soup[1].container = ""
    /\ soup[2].container = "li.fig" /\ soup[2].data_src = AbsB /\ soup[2].src = RootedA
    /\ uniq = <<AbsB, AbsA>>

\* the meta.json files written
MetaFiles == {writes[i].data : i \in {k \in DOMAIN writes : writes[k].file = File("meta.json")}}

\* the trace entries name, position by position, the first URLs of queue
TraceAlongQueue(trace, queue) ==
    /\ Len(trace) <= Len(queue)
    /\ \A i \in DOMAIN trace : trace[i].url = queue[i]

\* C25: in every state of either crawl the requested URLs of the trace are,
\* position by position, the first len(trace) entries of the frontier; the
\* tried_urls of meta.json are the frontier: the attempted URLs in attempt
\* order, then the URLs enqueued and never attempted.
C25_TraceIsFrontierPrefix ==
    Crawl =>
        /\ TraceAlongQueue(tried, url_queue)
        /\ \A meta \in MetaFiles :
               /\ meta.tried_urls = url_queue
               /\ TraceAlongQueue(meta.trace, meta.tried_urls)
               /\ SubSeq(meta.tried_urls, 1, Len(meta.trace)) = gets
               /\ \A i \in (Len(meta.trace) + 1)..Len(meta.tried_urls) :
                      meta.tried_urls[i] \notin visited

\* the full-text crawl wrote meta.json after two attempts, with a URL in
\* tried_urls that was never attempted
C25_Witness ==
    /\ mode = "fulltext" /\ MetaFiles # {}
    /\ \A meta \in MetaFiles :
           Len(meta.trace) >= 2 /\ Len(meta.tried_urls) > Len(meta.trace)

\* the ordered list of the claim
ClaimedExts ==
    << <<".", "p", "n", "g">>, <<".", "j", "p", "g">>, <<".", "j", "p", "e", "g">>,
       <<".", "t", "i", "f">>, <<".", "t", "i", "f", "f">>, <<".", "g", "i", "f">> >>

Tiff == <<".", "t", "i", "f", "f">>

\* the entries of the list that occur in the lower-cased URL u
ExtsIn(u) == {k \in DOMAIN ClaimedExts : Contains(Lower(u), ClaimedExts[k])}

\* C26: the extension of a figure saved by download_figures.py is the
\* earliest entry of (.png, .jpg, .jpeg, .tif, .tiff, .gif) that occurs in
\* the lower-cased image URL, wherever in the URL it stands; a URL whose
\* only image extension is ".tiff" is saved as ".tif", and no figure is
\* saved as ".tiff".
C26_EarliestListEntry ==
    (mode = "figures" /\ pc = "saved") =>
        /\ \A k \in ExtsIn(image_url) :
               (\A j \in ExtsIn(image_url) : k <= j) => fname.ext = ClaimedExts[k]
        /\ (Contains(Lower(image_url), Tiff) /\ ExtsIn(image_url) \subseteq {4, 5})
               => fname.ext = <<".", "t", "i", "f">>
        /\ fname.ext # Tiff
        /\ \A i \in DOMAIN writes : writes[i].file.ext # Tiff

\* a figure whose URL has ".Tiff" as its only image extension was saved
C26_Witness ==
    /\ mode = "figures" /\ pc = "saved"
    /\ Contains(Lower(image_url), Tiff) /\ ExtsIn(image_url) = {4, 5}
    /\ fname.ext = <<".", "t", "i", "f">>

====
